---- MODULE Spec2Model ----
(***************************************************************************)
(* octodns-dnsmadeeasy: the DNS Made Easy API client (DnsMadeEasyClient)   *)
(* and the octoDNS provider built on it (DnsMadeEasyProvider).             *)
(*                                                                         *)
(* Text is modelled as sequences of one-character strings, so that the     *)
(* string operations of the source (replace, endswith, slicing, the TXT    *)
(* delimiter pattern) are computed rather than assumed.                    *)
(*                                                                         *)
(* Spec    : one client and provider; populate and apply run one HTTP      *)
(*           request per step against a provider whose answers are free.   *)
(* SpecTXT : the TXT write path followed by the TXT read path on one value.*)
(* SpecCAA : the CAA write path followed by the CAA read path on one value.*)
(* SpecDesired : _process_desired_zone on one desired zone.                *)
(***************************************************************************)
EXTENDS Integers, Sequences, FiniteSets, TLC

VARIABLES
    batch_size,     \* DnsMadeEasyClient.batch_size
    _domains,       \* DnsMadeEasyClient._domains: None, or Some(name -> id)
    _zone_records,  \* DnsMadeEasyProvider._zone_records: name -> listing
    op,             \* the provider call in progress or last finished
    pc,             \* the request the call is about to send, or "idle"
    zone,           \* name of the zone the call is about
    planned,        \* None, or Some(zone name) of the populate a plan may be made from
    populated,      \* the records populate added to the zone
    exists,         \* populate's return value
    plan,           \* plan.changes of the apply in progress
    deletions,      \* zone_operations[zone]['deletions']
    creations,      \* zone_operations[zone]['creations']
    calls,          \* client calls of "Perform our operations" not yet finished
    sent,           \* number of batches already sent by the current record_multi_* call
    log,            \* the requests of the call, in the order they were sent
    status,         \* HTTP status of the last response
    exception,      \* the exception the last request raised, NoException if none
    result,         \* "none" | "running" | "returned" | the kind of the exception raised
    response,       \* domain_create: None, or Some(response['id'])
    abstract,       \* SpecTXT, SpecCAA: the abstract value
    wire,           \* SpecTXT, SpecCAA: what the write path made of it
    decoded,        \* SpecTXT, SpecCAA: the value read back
    stage,          \* SpecTXT, SpecCAA: "value" | "written" | "read";
                    \* SpecDesired: "given" | "returned" | "raised"
    strict_supports,\* SpecDesired: DnsMadeEasyProvider.strict_supports
    given,          \* SpecDesired: the records of the desired zone handed in
    desired         \* SpecDesired: desired.records

vars == <<batch_size, _domains, _zone_records, op, pc, zone, planned, populated,
          exists, plan, deletions, creations, calls, sent, log, status,
          exception, result, response, abstract, wire, decoded, stage,
          strict_supports, given, desired>>

clientVars == <<batch_size, _domains, _zone_records, op, pc, zone, planned,
                populated, exists, plan, deletions, creations, calls, sent, log,
                status, exception, result, response>>

txtVars == <<abstract, wire, decoded, stage>>

desiredVars == <<strict_supports, given, desired>>

-----------------------------------------------------------------------------
(* Bounds of the model *)

\* largest batch_size a client is constructed with
MaxBatchSize == 2
\* largest number of changes in a plan
MaxChanges == 2
\* longest TXT value of SpecTXT
MaxTxtLen == 3
\* longest CAA value of SpecCAA
MaxCaaLen == 3
\* largest number of records in a desired zone of SpecDesired
MaxDesired == 3

-----------------------------------------------------------------------------
(* Python values and text *)

None == <<>>
Some(v) == <<v>>

\* dict.get(key, False): ids are positive, 0 stands for False
False == 0

Range(s) == {s[i] : i \in 1..Len(s)}

Min(a, b) == IF a < b THEN a ELSE b

\* the characters of text
SEMI == ";"
BACKSLASH == "\\"
QUOTE == "\""
DOT == "."

\* s[i:j] of Python for 0 <= i <= j
Slice(s, i, j) == SubSeq(s, i + 1, Min(j, Len(s)))

\* str.startswith at 1-based position i
MatchAt(s, i, old) ==
    /\ i + Len(old) - 1 <= Len(s)
    /\ \A k \in 1..Len(old) : s[i + k - 1] = old[k]

\* str.replace(old, new) for non-empty old: leftmost, non-overlapping
RECURSIVE ReplaceFrom(_, _, _, _)
ReplaceFrom(s, i, old, new) ==
    IF i > Len(s) THEN <<>>
    ELSE IF MatchAt(s, i, old) THEN new \o ReplaceFrom(s, i + Len(old), old, new)
    ELSE <<s[i]>> \o ReplaceFrom(s, i + 1, old, new)

replace(s, old, new) == ReplaceFrom(s, 1, old, new)

endswith(s, c) == Len(s) > 0 /\ s[Len(s)] = c

\* '\n  - '.join(messages)
RECURSIVE join(_, _)
join(sep, parts) ==
    IF parts = <<>> THEN <<>>
    ELSE IF Len(parts) = 1 THEN parts[1]
    ELSE parts[1] \o sep \o join(sep, Tail(parts))

\* concatenation of a sequence of sequences
RECURSIVE Flatten(_)
Flatten(ss) == IF ss = <<>> THEN <<>> ELSE Head(ss) \o Flatten(Tail(ss))

\* TXT_RECORD_VALUE_DELIMITER_PATTERN.sub('', s): every "" that no backslash
\* precedes is removed, scanning from the left
RECURSIVE DelimiterSubFrom(_, _)
DelimiterSubFrom(s, i) ==
    IF i > Len(s) THEN <<>>
    ELSE IF /\ i < Len(s)
            /\ s[i] = QUOTE
            /\ s[i + 1] = QUOTE
            /\ (i = 1 \/ s[i - 1] # BACKSLASH)
         THEN DelimiterSubFrom(s, i + 2)
    ELSE <<s[i]>> \o DelimiterSubFrom(s, i + 1)

TXT_RECORD_VALUE_DELIMITER_PATTERN_sub(s) == DelimiterSubFrom(s, 1)

-----------------------------------------------------------------------------
(* DnsMadeEasyProvider: the read path, remote records -> record data *)

SUPPORTS == {"A", "AAAA", "ALIAS", "CAA", "CNAME", "MX", "NS", "PTR", "SRV", "TXT"}

_data_for_multiple(_type, records) ==
    [ttl |-> records[1].ttl,
     type |-> _type,
     values |-> [i \in 1..Len(records) |-> records[i].value]]

_data_for_CAA(_type, records) ==
    [ttl |-> records[1].ttl,
     type |-> _type,
     values |-> [i \in 1..Len(records) |->
                    [flags |-> records[i].issuerCritical,
                     tag |-> records[i].caaType,
                     value |-> Slice(records[i].value, 1, Len(records[i].value) - 1)]]]

\* the read path of one TXT value
TXT_read(value) ==
    TXT_RECORD_VALUE_DELIMITER_PATTERN_sub(replace(value, <<SEMI>>, <<BACKSLASH, SEMI>>))

_data_for_TXT(_type, records) ==
    [ttl |-> records[1].ttl,
     type |-> _type,
     values |-> [i \in 1..Len(records) |-> TXT_read(records[i].value)]]

_data_for_MX(_type, records) ==
    [ttl |-> records[1].ttl,
     type |-> _type,
     values |-> [i \in 1..Len(records) |->
                    [preference |-> records[i].mxLevel,
                     exchange |-> records[i].value]]]

_data_for_single(_type, records) ==
    [ttl |-> records[1].ttl, type |-> _type, value |-> records[1].value]

_data_for_SRV(_type, records) ==
    [type |-> _type,
     ttl |-> records[1].ttl,
     values |-> [i \in 1..Len(records) |->
                    [port |-> records[i].port,
                     priority |-> records[i].priority,
                     target |-> records[i].value,
                     weight |-> records[i].weight]]]

\* getattr(self, f'_data_for_{_type}')
data_for(_type, records) ==
    CASE _type \in {"A", "AAAA", "NS"} -> _data_for_multiple(_type, records)
      [] _type = "CAA" -> _data_for_CAA(_type, records)
      [] _type = "TXT" -> _data_for_TXT(_type, records)
      [] _type = "MX" -> _data_for_MX(_type, records)
      [] _type \in {"CNAME", "PTR", "ALIAS"} -> _data_for_single(_type, records)
      [] _type = "SRV" -> _data_for_SRV(_type, records)

\* Record.new(zone, name, data): the record object the provider reads back
\* through name, _type, ttl and value or values
Record_new(name, data) ==
    IF "value" \in DOMAIN data
    THEN [name |-> name, _type |-> data.type, ttl |-> data.ttl, value |-> data.value]
    ELSE [name |-> name, _type |-> data.type, ttl |-> data.ttl, values |-> data.values]

-----------------------------------------------------------------------------
(* DnsMadeEasyProvider: the write path, record -> parameter objects *)

_params_for_multiple(record) ==
    [i \in 1..Len(record.values) |->
        [value |-> record.values[i],
         name |-> record.name,
         ttl |-> record.ttl,
         type |-> record._type]]

_params_for_single(record) ==
    <<[value |-> record.value,
       name |-> record.name,
       ttl |-> record.ttl,
       type |-> record._type]>>

_params_for_MX(record) ==
    [i \in 1..Len(record.values) |->
        [value |-> record.values[i].exchange,
         name |-> record.name,
         mxLevel |-> record.values[i].preference,
         ttl |-> record.ttl,
         type |-> record._type]]

_params_for_SRV(record) ==
    [i \in 1..Len(record.values) |->
        [value |-> record.values[i].target,
         name |-> record.name,
         port |-> record.values[i].port,
         priority |-> record.values[i].priority,
         ttl |-> record.ttl,
         type |-> record._type,
         weight |-> record.values[i].weight]]

\* _params_for_TXT without the replace of line 410
TXT_write_no_unescape(value) == <<QUOTE>> \o value \o <<QUOTE>>

\* the write path of one TXT value
TXT_write(value) ==
    <<QUOTE>> \o replace(value, <<BACKSLASH, SEMI>>, <<SEMI>>) \o <<QUOTE>>

_params_for_TXT(record) ==
    [i \in 1..Len(record.values) |->
        [value |-> TXT_write(record.values[i]),
         name |-> record.name,
         ttl |-> record.ttl,
         type |-> record._type]]

\* _params_for_CAA with the value wrapped in double quotes
_params_for_CAA_quoted(record) ==
    [i \in 1..Len(record.values) |->
        [value |-> <<QUOTE>> \o record.values[i].value \o <<QUOTE>>,
         issuerCritical |-> record.values[i].flags,
         name |-> record.name,
         caaType |-> record.values[i].tag,
         ttl |-> record.ttl,
         type |-> record._type]]

_params_for_CAA(record) ==
    [i \in 1..Len(record.values) |->
        [value |-> record.values[i].value,
         issuerCritical |-> record.values[i].flags,
         name |-> record.name,
         caaType |-> record.values[i].tag,
         ttl |-> record.ttl,
         type |-> record._type]]

\* getattr(self, f'_params_for_{new._type}')
params_for(record) ==
    CASE record._type \in {"A", "AAAA", "NS"} -> _params_for_multiple(record)
      [] record._type \in {"CNAME", "PTR", "ALIAS"} -> _params_for_single(record)
      [] record._type = "MX" -> _params_for_MX(record)
      [] record._type = "SRV" -> _params_for_SRV(record)
      [] record._type = "TXT" -> _params_for_TXT(record)
      [] record._type = "CAA" -> _params_for_CAA(record)


-----------------------------------------------------------------------------
(* What the provider's API may answer, and what the caller may ask *)

\* the zones the caller works on
ZoneNames == {<<"a", DOT>>, <<"b", DOT>>}

\* response statuses: success, a 3xx delivered to the caller, and errors
Statuses == {200, 304, 400, 401, 403, 404, 500}

\* resp.json()['error'] of a 400 response
ErrorLists == {<<<<"e1">>, <<"e2">>>>}

\* resp.json()['data'] of GET /
DomainListings ==
    {<<>>,
     <<[name |-> <<"a">>, id |-> 1]>>}

\* response['id'] of POST /
NewIds == {3, 4}

\* resp.json()['data'] of GET /{zone_id}/records
RawListings ==
    {<<>>,
     <<[id |-> 11, name |-> <<"w">>, type |-> "A", value |-> <<"1">>, ttl |-> 300],
       [id |-> 12, name |-> <<"w">>, type |-> "A", value |-> <<"2">>, ttl |-> 300],
       [id |-> 13, name |-> <<>>, type |-> "ANAME", value |-> <<>>, ttl |-> 1800],
       [id |-> 14, name |-> <<"w">>, type |-> "HTTPRED", value |-> <<"u">>, ttl |-> 300]>>}

\* the records a desired zone may hold
DesiredRecords ==
    {[name |-> <<"w">>, _type |-> "A", ttl |-> 600, values |-> <<<<"1">>, <<"3">>>>],
     [name |-> <<>>, _type |-> "ALIAS", ttl |-> 1800, value |-> <<"t", DOT>>],
     [name |-> <<"x">>, _type |-> "TXT", ttl |-> 300,
      values |-> <<<<"v", BACKSLASH, SEMI>>>>],
     [name |-> <<"s">>, _type |-> "SRV", ttl |-> 600,
      values |-> <<[port |-> 0, priority |-> 0, target |-> <<DOT>>, weight |-> 0]>>],
     [name |-> <<"m">>, _type |-> "SRV", ttl |-> 600,
      values |-> <<[port |-> 30, priority |-> 12, target |-> <<"f", DOT>>,
                    weight |-> 20],
                   [port |-> 0, priority |-> 0, target |-> <<DOT>>, weight |-> 0]>>]}

\* the responses to a request: a status, the error list of a 400, the data of
\* a response below 400, whose body is taken to parse as the JSON asked for
Responses(data) ==
    {[status |-> st, error |-> <<>>, data |-> d] :
        st \in {c \in Statuses : c < 400}, d \in data}
    \cup {[status |-> st, error |-> <<>>, data |-> <<>>] :
            st \in {c \in Statuses : c > 400}}
    \cup {[status |-> 400, error |-> e, data |-> <<>>] : e \in ErrorLists}

-----------------------------------------------------------------------------
(* DnsMadeEasyClient *)

NoException == [kind |-> "none", message |-> <<>>, code |-> 0]

\* DnsMadeEasyClientBadRequest.__init__
DnsMadeEasyClientBadRequest(resp) ==
    [kind |-> "BadRequest",
     message |-> <<"\n  - ">> \o join(<<"\n  - ">>, resp.error),
     code |-> 0]

DnsMadeEasyClientUnauthorized ==
    [kind |-> "Unauthorized", message |-> <<"Unauthorized">>, code |-> 0]

DnsMadeEasyClientNotFound ==
    [kind |-> "NotFound", message |-> <<"Not Found">>, code |-> 0]

\* requests.Response.raise_for_status: HTTPError for a 4xx or 5xx status
raise_for_status(resp) ==
    IF 400 <= resp.status /\ resp.status < 600
    THEN [kind |-> "HTTPError", message |-> <<>>, code |-> resp.status]
    ELSE NoException

\* _request with 403 left out of the Unauthorized test
_request_only_401(resp) ==
    IF resp.status = 400
    THEN [exception |-> DnsMadeEasyClientBadRequest(resp), slept |-> FALSE]
    ELSE IF resp.status = 401
    THEN [exception |-> DnsMadeEasyClientUnauthorized, slept |-> FALSE]
    ELSE IF resp.status = 404
    THEN [exception |-> DnsMadeEasyClientNotFound, slept |-> FALSE]
    ELSE IF raise_for_status(resp) # NoException
    THEN [exception |-> raise_for_status(resp), slept |-> FALSE]
    ELSE [exception |-> NoException, slept |-> TRUE]

\* _request, from the response on: the exception raised, NoException when the
\* response is returned, and whether sleep(ratelimit_delay) ran
_request(resp) ==
    IF resp.status = 400
    THEN [exception |-> DnsMadeEasyClientBadRequest(resp), slept |-> FALSE]
    ELSE IF resp.status \in {401, 403}
    THEN [exception |-> DnsMadeEasyClientUnauthorized, slept |-> FALSE]
    ELSE IF resp.status = 404
    THEN [exception |-> DnsMadeEasyClientNotFound, slept |-> FALSE]
    ELSE IF raise_for_status(resp) # NoException
    THEN [exception |-> raise_for_status(resp), slept |-> FALSE]
    ELSE [exception |-> NoException, slept |-> TRUE]

\* `if not self._domains`: an empty listing counts as not fetched
domains_unset_or_empty(d) == d = None \/ d[1] = <<>>

\* `if self._domains is None`
domains_unset(d) == d = None

\* {f'{z["name"]}.': z['id'] for z in zones}
domains_dict(zones) ==
    [n \in {zones[i].name \o <<DOT>> : i \in 1..Len(zones)} |->
        LET last == CHOOSE i \in 1..Len(zones) :
                        /\ zones[i].name \o <<DOT>> = n
                        /\ \A j \in (i + 1)..Len(zones) : zones[j].name \o <<DOT>> # n
        IN  zones[last].id]

\* self.domains.get(zone_name, 1): a default that is an id
domains_get_default_id(d, zone_name) ==
    IF zone_name \in DOMAIN d THEN d[zone_name] ELSE 1

\* self.domains.get(zone_name, False)
domains_get(d, zone_name) == IF zone_name \in DOMAIN d THEN d[zone_name] ELSE False

\* self.domains[name] = response['id']: the key lacks the final dot
domains_register_no_dot(d, name, id) ==
    [n \in DOMAIN d \cup {name} |-> IF n = name THEN id ELSE d[n]]

\* domain_create, line 117: self.domains[f'{name}.'] = response['id']
domains_register(d, name, id) ==
    [n \in DOMAIN d \cup {name \o <<DOT>>} |-> IF n = name \o <<DOT>> THEN id ELSE d[n]]

\* records() without the test for the empty value
records_record_keep_empty(record, zone_name) ==
    LET type == IF record.type = "ANAME" THEN "ALIAS" ELSE record.type
        value == record.value
    IN  [record EXCEPT
            !.type = type,
            !.value = IF type \in {"ALIAS", "CNAME", "MX", "NS", "SRV"}
                      THEN IF ~endswith(value, DOT)
                           THEN value \o <<DOT>> \o zone_name
                           ELSE value
                      ELSE value]

\* records(), the loop over the returned records
records_record(record, zone_name) ==
    LET type == IF record.type = "ANAME" THEN "ALIAS" ELSE record.type
        value == record.value
    IN  [record EXCEPT
            !.type = type,
            !.value = IF type \in {"ALIAS", "CNAME", "MX", "NS", "SRV"}
                      THEN IF value = <<>> THEN zone_name
                           ELSE IF ~endswith(value, DOT)
                                THEN value \o <<DOT>> \o zone_name
                                ELSE value
                      ELSE value]

records_postprocess(ret, zone_name) ==
    [i \in 1..Len(ret) |-> records_record(ret[i], zone_name)]

\* records[i : i + batch_size + 1]: every slice runs one item into the next
_batch_records_overlap(records, size) ==
    [k \in 1..((Len(records) + size - 1) \div size) |->
        Slice(records, (k - 1) * size, (k - 1) * size + size + 1)]

\* _batch_records: the slices records[i : i + batch_size] for i in
\* range(0, len(records), batch_size)
_batch_records(records, size) ==
    [k \in 1..((Len(records) + size - 1) \div size) |->
        Slice(records, (k - 1) * size, (k - 1) * size + size)]

\* record_multi_create with line 161 inside the `if` of line 159
record_multi_create_stamp_alias_only(records) ==
    [i \in 1..Len(records) |->
        IF records[i].type = "ALIAS"
        THEN [f \in DOMAIN records[i] \cup {"gtdLocation"} |->
                IF f = "gtdLocation" THEN "DEFAULT"
                ELSE IF f = "type" THEN "ANAME"
                ELSE records[i][f]]
        ELSE records[i]]

\* record_multi_create, lines 158-161
record_multi_create_stamp(records) ==
    [i \in 1..Len(records) |->
        [f \in DOMAIN records[i] \cup {"gtdLocation"} |->
            IF f = "gtdLocation" THEN "DEFAULT"
            ELSE IF f = "type" /\ records[i].type = "ALIAS" THEN "ANAME"
            ELSE records[i][f]]]


-----------------------------------------------------------------------------
(* DnsMadeEasyProvider: populate and the changes of a plan *)

\* zone_records without the cache test
cached_never(cache, name) == FALSE

\* zone_records: `zone.name not in self._zone_records` negated
cached(cache, name) == name \in DOMAIN cache

\* _apply without line 498
pop_nothing(cache, name) == cache

\* self._zone_records.pop(desired.name, None)
pop(cache, name) == [n \in DOMAIN cache \ {name} |-> cache[n]]

\* populate, lines 287-308: the records added to the zone from a listing
populate_records(listing) ==
    LET supported == SelectSeq(listing, LAMBDA r : r.type \in SUPPORTS)
        keys == {<<supported[i].name, supported[i].type>> : i \in 1..Len(supported)}
    IN  {Record_new(k[1],
                    data_for(k[2], SelectSeq(supported,
                                             LAMBDA r : r.name = k[1] /\ r.type = k[2])))
            : k \in keys}

_mod_Create(change) ==
    [deletions |-> <<>>, creations |-> params_for(change.new)]

\* _mod_Delete with the test of the type left out
_mod_Delete_by_name(change, listing) ==
    LET matching == SelectSeq(listing, LAMBDA r : change.existing.name = r.name)
    IN  [deletions |-> [i \in 1..Len(matching) |-> matching[i].id],
         creations |-> <<>>]

_mod_Delete(change, listing) ==
    LET matching == SelectSeq(listing,
                              LAMBDA r : /\ change.existing.name = r.name
                                         /\ change.existing._type = r.type)
    IN  [deletions |-> [i \in 1..Len(matching) |-> matching[i].id],
         creations |-> <<>>]

_mod_Update(change, listing) ==
    [deletions |-> _mod_Delete(change, listing).deletions,
     creations |-> _mod_Create(change).creations]

\* getattr(self, f'_mod_{class_name}')(change)
mod(change, listing) ==
    CASE change.class = "Create" -> _mod_Create(change)
      [] change.class = "Delete" -> _mod_Delete(change, listing)
      [] change.class = "Update" -> _mod_Update(change, listing)

\* _apply with the lists of a change put before those of the earlier changes
RECURSIVE zone_operations_prepend(_, _)
zone_operations_prepend(changes, listing) ==
    IF changes = <<>> THEN [deletions |-> <<>>, creations |-> <<>>]
    ELSE LET n == Len(changes)
             before == zone_operations_prepend(SubSeq(changes, 1, n - 1), listing)
             m == mod(changes[n], listing)
         IN  [deletions |-> m.deletions \o before.deletions,
              creations |-> m.creations \o before.creations]

\* _apply, lines 468-484: the deletions and creations of all changes
RECURSIVE zone_operations(_, _)
zone_operations(changes, listing) ==
    IF changes = <<>> THEN [deletions |-> <<>>, creations |-> <<>>]
    ELSE LET n == Len(changes)
             before == zone_operations(SubSeq(changes, 1, n - 1), listing)
             m == mod(changes[n], listing)
         IN  [deletions |-> before.deletions \o m.deletions,
              creations |-> before.creations \o m.creations]

\* record_multi_create called before record_multi_delete
operations_create_first(dels, creates) ==
    (IF creates # <<>> THEN <<"record_multi_create">> ELSE <<>>)
    \o (IF dels # <<>> THEN <<"record_multi_delete">> ELSE <<>>)

\* _apply, lines 487-495: the client calls made for the zone, in order
operations(dels, creates) ==
    (IF dels # <<>> THEN <<"record_multi_delete">> ELSE <<>>)
    \o (IF creates # <<>> THEN <<"record_multi_create">> ELSE <<>>)

\* desired.name[:-1]
domain_name(name) == Slice(name, 0, Len(name) - 1)

\* The plans the diff engine may hand to apply after populate returned the
\* records `existing`: one change at most per (name, type), a Create for a
\* desired record the zone lacks, an Update or a Delete for one it holds.
\* The diff engine asks supports(record) and leaves out the records the
\* provider does not support.
\* All changes of a plan are of the plan's zone, and a plan is applied before
\* the zone is planned again.
Key(record) == <<record.name, record._type>>

\* supports without the test of the SRV targets
supports_any_target(record) == record._type \in SUPPORTS

\* supports, lines 318-341: record.data holds 'value' for a record of one
\* value and 'values' otherwise; super().supports(record) is
\* record._type in SUPPORTS
supports(record) ==
    IF record._type = "SRV"
    THEN LET targets ==
                IF Len(record.values) = 1
                THEN <<record.values[1].target>>
                ELSE [i \in 1..Len(record.values) |-> record.values[i].target]
         IN  IF <<DOT>> \in Range(targets) THEN FALSE
             ELSE record._type \in SUPPORTS
    ELSE record._type \in SUPPORTS

\* any('"' in v for v in record.values) of a TXT record
quoted(record) ==
    /\ record._type = "TXT"
    /\ \E i \in 1..Len(record.values) : QUOTE \in Range(record.values[i])

\* v.strip('"'): only the quotes at the ends are removed
unquote_ends(v) ==
    LET inside == {i \in 1..Len(v) : v[i] # QUOTE}
        Lo(S) == CHOOSE i \in S : \A j \in S : i <= j
        Hi(S) == CHOOSE i \in S : \A j \in S : i >= j
    IN  IF inside = {} THEN <<>> ELSE SubSeq(v, Lo(inside), Hi(inside))

\* v.replace('"', '')
unquote(v) == replace(v, <<QUOTE>>, <<>>)

\* supports_warn_or_except(msg, fallback): raises SupportsException when the
\* provider is strict, logs a warning and returns otherwise
supports_warn_or_except(strict) == strict

\* desired.add_record(record, replace=True)
add_record_replace(records, record) ==
    {r \in records : Key(r) # Key(record)} \cup {record}

\* _process_desired_zone: `records` is desired.records in the order the loop
\* visits it, `held` the records of desired as the loop goes on
RECURSIVE _process_desired_zone(_, _, _)
_process_desired_zone(records, held, strict) ==
    IF records = <<>> THEN [raised |-> FALSE, desired |-> held]
    ELSE LET record == Head(records)
             copy == [record EXCEPT
                        !.values = [i \in 1..Len(@) |-> unquote(@[i])]]
         IN  IF quoted(record)
             THEN IF supports_warn_or_except(strict)
                  THEN [raised |-> TRUE, desired |-> held]
                  ELSE _process_desired_zone(Tail(records),
                                             add_record_replace(held, copy), strict)
             ELSE _process_desired_zone(Tail(records), held, strict)

Candidates(existing) ==
    {[class |-> "Delete", existing |-> e] : e \in {r \in existing : supports(r)}}
    \cup {[class |-> "Update", existing |-> ch[1], new |-> ch[2]] :
            ch \in {c \in existing \X DesiredRecords :
                        Key(c[1]) = Key(c[2]) /\ c[1] # c[2] /\ supports(c[2])}}
    \cup {[class |-> "Create", new |-> n] :
            n \in {d \in DesiredRecords :
                        supports(d) /\ \A e \in existing : Key(e) # Key(d)}}

Target(change) ==
    IF change.class = "Create" THEN Key(change.new) ELSE Key(change.existing)

Plans(existing) ==
    {p \in UNION {[1..k -> Candidates(existing)] : k \in 1..MaxChanges} :
        \A i, j \in 1..Len(p) : i # j => Target(p[i]) # Target(p[j])}


-----------------------------------------------------------------------------
(* The state machine.  A step sends one request and runs the code that       *)
(* follows it up to the next request, or to the end of the provider call.    *)

Cur ==
    [batch_size |-> batch_size, _domains |-> _domains,
     _zone_records |-> _zone_records, op |-> op, pc |-> pc, zone |-> zone,
     planned |-> planned, populated |-> populated, exists |-> exists,
     plan |-> plan, deletions |-> deletions, creations |-> creations,
     calls |-> calls, sent |-> sent, log |-> log, status |-> status,
     exception |-> exception, result |-> result, response |-> response]

Set(S) ==
    /\ batch_size' = S.batch_size
    /\ _domains' = S._domains
    /\ _zone_records' = S._zone_records
    /\ op' = S.op
    /\ pc' = S.pc
    /\ zone' = S.zone
    /\ planned' = S.planned
    /\ populated' = S.populated
    /\ exists' = S.exists
    /\ plan' = S.plan
    /\ deletions' = S.deletions
    /\ creations' = S.creations
    /\ calls' = S.calls
    /\ sent' = S.sent
    /\ log' = S.log
    /\ status' = S.status
    /\ exception' = S.exception
    /\ result' = S.result
    /\ response' = S.response

\* a provider call starts: its locals are fresh
Call(S, name, zone_name) ==
    [S EXCEPT !.op = name, !.zone = zone_name, !.planned = None, !.plan = <<>>,
              !.deletions = <<>>, !.creations = <<>>, !.calls = <<>>, !.sent = 0,
              !.log = <<>>, !.status = 0, !.exception = NoException,
              !.result = "running", !.response = None]

Request(method, path, name, zone_id, items) ==
    [method |-> method, path |-> path, name |-> name, zone_id |-> zone_id,
     items |-> items, raised |-> "none", slept |-> FALSE]

\* _request: the request is sent and answered by resp
send(S, request, resp) ==
    LET out == _request(resp)
    IN  [S EXCEPT !.log = Append(@, [request EXCEPT !.raised = out.exception.kind,
                                                    !.slept = out.slept]),
                  !.status = resp.status,
                  !.exception = out.exception]

\* the exception is swallowed and the request is sent again
raise_retry(S) == [S EXCEPT !.exception = NoException]

\* the exception leaves the provider call
raise(S) == [S EXCEPT !.pc = "idle", !.result = S.exception.kind]

\* populate, lines 287-316, once zone_records has returned
populate_return(S) ==
    [S EXCEPT !.populated = populate_records(S._zone_records[S.zone]),
              !.exists = S.zone \in DOMAIN S._zone_records,
              !.planned = Some(S.zone),
              !.pc = "idle",
              !.result = "returned"]

\* zone_records, line 275: the listing records() returned is stored
zone_records_store(S, listing) ==
    populate_return([S EXCEPT !._zone_records = (S.zone :> listing) @@ @])

\* records(), lines 120-123, with self.domains in hand
records_lookup(S) ==
    IF domains_get(S._domains[1], S.zone) = False
    THEN zone_records_store(S, <<>>)
    ELSE [S EXCEPT !.pc = "records"]

\* records(), line 120
records(S) ==
    IF domains_unset(S._domains) THEN [S EXCEPT !.pc = "records.domains"]
    ELSE records_lookup(S)

\* populate, line 288: zone_records(zone)
zone_records(S) ==
    IF cached(S._zone_records, S.zone) THEN populate_return(S) ELSE records(S)

\* _apply, line 498, and its return
apply_return(S) ==
    [S EXCEPT !._zone_records = pop(@, S.zone), !.pc = "idle", !.result = "returned"]

\* record_multi_delete, lines 146-150, with self.domains in hand
record_multi_delete_lookup(S) == [S EXCEPT !.pc = "record_multi_delete", !.sent = 0]

record_multi_delete(S) ==
    IF domains_unset(S._domains) THEN [S EXCEPT !.pc = "record_multi_delete.domains"]
    ELSE record_multi_delete_lookup(S)

\* record_multi_create, lines 154-164, with self.domains in hand
record_multi_create_lookup(S) ==
    [S EXCEPT !.pc = "record_multi_create", !.sent = 0,
              !.creations = record_multi_create_stamp(@)]

record_multi_create(S) ==
    IF domains_unset(S._domains) THEN [S EXCEPT !.pc = "record_multi_create.domains"]
    ELSE record_multi_create_lookup(S)

\* _apply, lines 487-498: the next client call, or the end of apply.  A call
\* is made for a non-empty list only, so it sends at least one batch.
perform(S) ==
    IF S.calls = <<>> THEN apply_return(S)
    ELSE IF Head(S.calls) = "record_multi_delete" THEN record_multi_delete(S)
    ELSE record_multi_create(S)

\* _apply, lines 468-495, once the domain is there; the zone's listing is in
\* the cache since the populate the plan was made from
changes_of(S) ==
    LET ops == zone_operations(S.plan, S._zone_records[S.zone])
    IN  perform([S EXCEPT !.deletions = ops.deletions,
                          !.creations = ops.creations,
                          !.calls = operations(ops.deletions, ops.creations)])

\* domain_create without line 117: the id of the new domain is not kept
domain_create_lookup_forget(S) == changes_of(S)

\* domain_create, line 117, with self.domains in hand
domain_create_lookup(S) ==
    changes_of([S EXCEPT !._domains =
                    Some(domains_register(@[1], domain_name(S.zone), S.response[1]))])

domain_create_register(S) ==
    IF domains_unset(S._domains) THEN [S EXCEPT !.pc = "domain_create.domains"]
    ELSE domain_create_lookup(S)

\* the batch a record_multi_* call sends next
batch(S, items) == _batch_records(items, S.batch_size)[S.sent + 1]

\* after a batch was sent: the next batch, or the end of the record_multi_* call
batch_sent(S, items) ==
    IF S.sent + 1 < Len(_batch_records(items, S.batch_size))
    THEN [S EXCEPT !.sent = @ + 1]
    ELSE perform([S EXCEPT !.sent = @ + 1, !.calls = Tail(@)])

(* provider calls *)

populate(zone_name) ==
    /\ pc = "idle"
    /\ Set(zone_records([Call(Cur, "populate", zone_name) EXCEPT
                            !.populated = {}, !.exists = FALSE]))
    /\ UNCHANGED <<txtVars, desiredVars>>

apply ==
    /\ pc = "idle"
    /\ planned # None
    /\ \E changes \in Plans(populated) :
        Set([Call(Cur, "apply", planned[1]) EXCEPT !.plan = changes, !.pc = "domain"])
    /\ UNCHANGED <<txtVars, desiredVars>>

(* requests *)

\* property domains, lines 99-108: GET /
domains_request ==
    /\ pc \in {"records.domains", "domain_create.domains",
               "record_multi_delete.domains", "record_multi_create.domains"}
    /\ \E resp \in Responses(DomainListings) :
        LET S == send(Cur, Request("GET", "/", <<>>, False, <<>>), resp)
            T == [S EXCEPT !._domains = Some(domains_dict(resp.data))]
        IN  Set(IF S.exception # NoException THEN raise(S)
                ELSE CASE pc = "records.domains" -> records_lookup(T)
                       [] pc = "domain_create.domains" -> domain_create_lookup(T)
                       [] pc = "record_multi_delete.domains" ->
                            record_multi_delete_lookup(T)
                       [] pc = "record_multi_create.domains" ->
                            record_multi_create_lookup(T))
    /\ UNCHANGED <<txtVars, desiredVars>>

\* records(), lines 123-143: GET /{zone_id}/records, answered with one of
\* `listings`
records_request_from(listings) ==
    /\ pc = "records"
    /\ \E resp \in Responses(listings) :
        LET zone_id == domains_get(_domains[1], zone)
            S == send(Cur, Request("GET", "/{zone_id}/records", <<>>, zone_id, <<>>),
                      resp)
        IN  Set(IF S.exception # NoException THEN raise(S)
                ELSE zone_records_store(S, records_postprocess(resp.data, zone)))
    /\ UNCHANGED <<txtVars, desiredVars>>

records_request == records_request_from(RawListings)

\* _apply, lines 461-466: domain(), GET /id/{name}
domain_request ==
    /\ pc = "domain"
    /\ \E resp \in Responses({<<>>}) :
        LET S == send(Cur, Request("GET", "/id/{name}", domain_name(zone), False,
                                   <<>>), resp)
        IN  Set(IF S.exception.kind = "NotFound" THEN [S EXCEPT !.pc = "domain_create"]
                ELSE IF S.exception # NoException THEN raise(S)
                ELSE changes_of(S))
    /\ UNCHANGED <<txtVars, desiredVars>>

\* domain_create, lines 114-117: POST /
domain_create_request ==
    /\ pc = "domain_create"
    /\ \E resp \in Responses(NewIds) :
        LET S == send(Cur, Request("POST", "/", domain_name(zone), False, <<>>), resp)
        IN  Set(IF S.exception # NoException THEN raise(S)
                ELSE domain_create_register([S EXCEPT !.response = Some(resp.data)]))
    /\ UNCHANGED <<txtVars, desiredVars>>

\* record_multi_delete, lines 150-151: DELETE /{zone_id}/records
record_multi_delete_request ==
    /\ pc = "record_multi_delete"
    /\ \E resp \in Responses({<<>>}) :
        LET zone_id == domains_get(_domains[1], zone)
            S == send(Cur, Request("DELETE", "/{zone_id}/records", <<>>, zone_id,
                                   batch(Cur, deletions)), resp)
        IN  Set(IF S.exception # NoException THEN raise(S)
                ELSE batch_sent(S, deletions))
    /\ UNCHANGED <<txtVars, desiredVars>>

\* record_multi_create, lines 164-165: POST /{zone_id}/records/createMulti
record_multi_create_request ==
    /\ pc = "record_multi_create"
    /\ \E resp \in Responses({<<>>}) :
        LET zone_id == domains_get(_domains[1], zone)
            S == send(Cur, Request("POST", "/{zone_id}/records/createMulti", <<>>,
                                   zone_id, batch(Cur, creations)), resp)
        IN  Set(IF S.exception # NoException THEN raise(S)
                ELSE batch_sent(S, creations))
    /\ UNCHANGED <<txtVars, desiredVars>>

\* the client and the provider after construction
Constructed ==
    /\ _domains = None
    /\ _zone_records = <<>>
    /\ op = "none"
    /\ pc = "idle"
    /\ zone = <<>>
    /\ planned = None
    /\ populated = {}
    /\ exists = FALSE
    /\ plan = <<>>
    /\ deletions = <<>>
    /\ creations = <<>>
    /\ calls = <<>>
    /\ sent = 0
    /\ log = <<>>
    /\ status = 0
    /\ exception = NoException
    /\ result = "none"
    /\ response = None

\* the variables of SpecDesired while no desired zone is processed
NoDesired ==
    /\ strict_supports = FALSE
    /\ given = {}
    /\ desired = {}

Init ==
    /\ batch_size \in 1..MaxBatchSize
    /\ Constructed
    /\ abstract = <<>>
    /\ wire = <<>>
    /\ decoded = <<>>
    /\ stage = "off"
    /\ NoDesired

Next ==
    \/ \E zone_name \in ZoneNames : populate(zone_name)
    \/ apply
    \/ domains_request
    \/ records_request
    \/ domain_request
    \/ domain_create_request
    \/ record_multi_delete_request
    \/ record_multi_create_request

Spec == Init /\ [][Next]_vars


-----------------------------------------------------------------------------
(* SpecRecords: populate has fetched the domain listing and is about to      *)
(* request the records of a zone the listing holds; the answer is a listing  *)
(* of one record of any type and value                                       *)

RecordTypes ==
    <<"A", "AAAA", "ALIAS", "ANAME", "CAA", "CNAME", "HTTPRED", "MX", "NS", "PTR",
      "SRV", "TXT">>

\* empty, relative, absolute, the lone dot, and quoted
RecordValues == <<<<>>, <<"t">>, <<"t", DOT>>, <<DOT>>, <<QUOTE, "t", QUOTE>>>>

\* remote records with the fields of every type, one for each type and
\* value, each with an id of its own
RemoteRecords ==
    {[id |-> 100 + 10 * t + v, name |-> <<"r">>, type |-> RecordTypes[t],
      value |-> RecordValues[v], ttl |-> 300,
      mxLevel |-> 10, port |-> 30, priority |-> 12, weight |-> 20,
      issuerCritical |-> 0, caaType |-> "issue"] :
        t \in 1..Len(RecordTypes), v \in 1..Len(RecordValues)}

OneRecordListings == {<<r>> : r \in RemoteRecords}

InitRecords ==
    /\ batch_size = 1
    /\ \E zone_name \in ZoneNames :
        /\ _domains = Some(domains_dict(<<[name |-> domain_name(zone_name), id |-> 1]>>))
        /\ zone = zone_name
    /\ _zone_records = <<>>
    /\ op = "populate"
    /\ pc = "records"
    /\ planned = None
    /\ populated = {}
    /\ exists = FALSE
    /\ plan = <<>>
    /\ deletions = <<>>
    /\ creations = <<>>
    /\ calls = <<>>
    /\ sent = 0
    /\ log = <<[Request("GET", "/", <<>>, False, <<>>) EXCEPT !.slept = TRUE]>>
    /\ status = 200
    /\ exception = NoException
    /\ result = "running"
    /\ response = None
    /\ abstract = <<>>
    /\ wire = <<>>
    /\ decoded = <<>>
    /\ stage = "off"
    /\ NoDesired

NextRecords == records_request_from(OneRecordListings)

SpecRecords == InitRecords /\ [][NextRecords]_vars


-----------------------------------------------------------------------------
(* SpecTXT: one TXT value is written by _params_for_TXT, and the wire value  *)
(* is read back by _data_for_TXT                                             *)

TxtChars == {SEMI, BACKSLASH, QUOTE, "v"}

TxtValues == UNION {[1..n -> TxtChars] : n \in 0..MaxTxtLen}

InitTXT ==
    /\ batch_size = 1
    /\ Constructed
    /\ abstract \in TxtValues
    /\ wire = <<>>
    /\ decoded = <<>>
    /\ stage = "value"
    /\ NoDesired

write_TXT ==
    /\ stage = "value"
    /\ wire' = _params_for_TXT([name |-> <<"x">>, _type |-> "TXT", ttl |-> 300,
                                values |-> <<abstract>>])[1].value
    /\ stage' = "written"
    /\ UNCHANGED <<abstract, decoded>>
    /\ UNCHANGED <<clientVars, desiredVars>>

read_TXT ==
    /\ stage = "written"
    /\ decoded' = _data_for_TXT("TXT", <<[id |-> 21, name |-> <<"x">>,
                                          type |-> "TXT", value |-> wire,
                                          ttl |-> 300]>>).values[1]
    /\ stage' = "read"
    /\ UNCHANGED <<abstract, wire>>
    /\ UNCHANGED <<clientVars, desiredVars>>

NextTXT == write_TXT \/ read_TXT

SpecTXT == InitTXT /\ [][NextTXT]_vars


-----------------------------------------------------------------------------
(* SpecCAA: one CAA value is written by _params_for_CAA, and the parameter   *)
(* object is read back by _data_for_CAA as the remote record it describes    *)

CaaChars == {QUOTE, DOT, "c"}

CaaValues ==
    [flags : {0, 128},
     tag : {"issue", "issuewild", "iodef"},
     value : UNION {[1..n -> CaaChars] : n \in 0..MaxCaaLen}]

InitCAA ==
    /\ batch_size = 1
    /\ Constructed
    /\ abstract \in CaaValues
    /\ wire = <<>>
    /\ decoded = <<>>
    /\ stage = "value"
    /\ NoDesired

write_CAA ==
    /\ stage = "value"
    /\ wire' = _params_for_CAA([name |-> <<>>, _type |-> "CAA", ttl |-> 3600,
                                values |-> <<abstract>>])[1]
    /\ stage' = "written"
    /\ UNCHANGED <<abstract, decoded>>
    /\ UNCHANGED <<clientVars, desiredVars>>

read_CAA ==
    /\ stage = "written"
    /\ decoded' = _data_for_CAA("CAA", <<[id |-> 31, name |-> wire.name,
                                          type |-> wire.type, value |-> wire.value,
                                          issuerCritical |-> wire.issuerCritical,
                                          caaType |-> wire.caaType,
                                          ttl |-> wire.ttl]>>).values[1]
    /\ stage' = "read"
    /\ UNCHANGED <<abstract, wire>>
    /\ UNCHANGED <<clientVars, desiredVars>>

NextCAA == write_CAA \/ read_CAA

SpecCAA == InitCAA /\ [][NextCAA]_vars


-----------------------------------------------------------------------------
(* SpecDesired: _process_desired_zone is called on one desired zone by a     *)
(* provider that is strict or lenient                                        *)

\* TXT records with a double quote in a value: around a value, inside a
\* value, and after a backslash
QuotedRecords ==
    {[name |-> <<"q">>, _type |-> "TXT", ttl |-> 300,
      values |-> <<<<QUOTE, "v", QUOTE>>, <<"u">>>>],
     [name |-> <<"p">>, _type |-> "TXT", ttl |-> 300,
      values |-> <<<<"v", QUOTE, "u">>>>],
     [name |-> <<"e">>, _type |-> "TXT", ttl |-> 300,
      values |-> <<<<BACKSLASH, QUOTE>>, <<QUOTE, QUOTE>>>>]}

DesiredZones ==
    {z \in SUBSET (DesiredRecords \cup QuotedRecords) : Cardinality(z) <= MaxDesired}

\* the orders in which a loop may visit the elements of a set
Orders(S) ==
    {f \in [1..Cardinality(S) -> S] : \A i, j \in DOMAIN f : i # j => f[i] # f[j]}

InitDesired ==
    /\ batch_size = 1
    /\ Constructed
    /\ abstract = <<>>
    /\ wire = <<>>
    /\ decoded = <<>>
    /\ stage = "given"
    /\ strict_supports \in BOOLEAN
    /\ given \in DesiredZones
    /\ desired = given

process_desired_zone ==
    /\ stage = "given"
    /\ \E order \in Orders(desired) :
        LET out == _process_desired_zone(order, desired, strict_supports)
        IN  /\ desired' = out.desired
            /\ stage' = IF out.raised THEN "raised" ELSE "returned"
    /\ UNCHANGED <<strict_supports, given, abstract, wire, decoded>>
    /\ UNCHANGED clientVars

NextDesired == process_desired_zone

SpecDesired == InitDesired /\ [][NextDesired]_vars


-----------------------------------------------------------------------------
(* Properties *)

IsDomains(e) == e.method = "GET" /\ e.path = "/"
IsDomain(e) == e.method = "GET" /\ e.path = "/id/{name}"
IsDomainCreate(e) == e.method = "POST" /\ e.path = "/"
IsRecords(e) == e.method = "GET" /\ e.path = "/{zone_id}/records"
IsDelete(e) == e.method = "DELETE" /\ e.path = "/{zone_id}/records"
IsCreate(e) == e.method = "POST" /\ e.path = "/{zone_id}/records/createMulti"

Errors == {"BadRequest", "Unauthorized", "NotFound", "HTTPError"}

\* the step sends a request
Sends == Len(log') = Len(log) + 1
Sent == log'[Len(log')]

\* the step is the return of apply
ApplyReturns == op = "apply" /\ pc # "idle" /\ pc' = "idle" /\ result' = "returned"

\* the least k with k * b >= n
Ceil(n, b) == CHOOSE k \in 0..n : k * b >= n /\ \A j \in 0..(k - 1) : j * b < n

\* C1: within one apply, whose bulk requests all go to the plan's zone, every
\* bulk-delete request is sent before every bulk-create request: no create
\* request is followed by a delete request.
C1_DeletesBeforeCreates ==
    op = "apply" =>
        \A i, j \in 1..Len(log) : IsCreate(log[i]) /\ IsDelete(log[j]) => j < i

\* an apply that returned after sending deletes and then creates
C1_Witness ==
    /\ op = "apply"
    /\ result = "returned"
    /\ \E i, j \in 1..Len(log) : i < j /\ IsDelete(log[i]) /\ IsCreate(log[j])

\* the requests of `is` kind sent so far are the leading batches of `items`:
\* contiguous slices of at most batch_size items, in order, one after another;
\* once the call is over there are Ceil(n, batch_size) of them and together
\* they are `items`
BatchesOf(kind, items, over) ==
    LET is(e) == <<e.method, e.path>> = kind
        reqs == SelectSeq(log, is)
        n == Len(items)
        b == batch_size
    IN  /\ Len(reqs) <= Ceil(n, b)
        /\ \A k \in 1..Len(reqs) :
            /\ Len(reqs[k].items) \in 1..b
            /\ reqs[k].items = SubSeq(items, (k - 1) * b + 1, Min(k * b, n))
        /\ \A i, j \in 1..Len(log) :
            is(log[i]) /\ is(log[j]) /\ i < j => \A m \in i..j : is(log[m])
        /\ over =>
            /\ Len(reqs) = Ceil(n, b)
            /\ Flatten([k \in 1..Len(reqs) |-> reqs[k].items]) = items

DeleteOver == deletions # <<>> /\ "record_multi_delete" \notin Range(calls)
CreateOver == creations # <<>> /\ "record_multi_create" \notin Range(calls)

\* C2: a list of n items is sent in ceil(n / batch_size) requests, one after
\* another, each a contiguous slice of at most batch_size items; the payloads
\* in the order sent make up the list, nothing duplicated or dropped.
C2_Batching ==
    op = "apply" =>
        /\ BatchesOf(<<"DELETE", "/{zone_id}/records">>, deletions, DeleteOver)
        /\ BatchesOf(<<"POST", "/{zone_id}/records/createMulti">>, creations, CreateOver)

\* three ids deleted with batches of two: a full batch and a short one
C2_Witness ==
    /\ op = "apply"
    /\ result = "returned"
    /\ batch_size = 2
    /\ Len(deletions) = 3
    /\ Len(SelectSeq(log, IsDelete)) = 2
    /\ Len(SelectSeq(log, IsCreate)) >= 1

\* C3: apply starts with the domain check GET /id/{name}.  The domain is
\* created exactly when the check raised NotFound, and when the creation
\* succeeded the id it returned is in the domain-id cache under the
\* dot-terminated zone name from then on.  Any other error of the check leaves
\* apply as it was raised, the check being the only request sent.
C3_EnsureDomain ==
    op = "apply" =>
        /\ log = <<>> => pc = "domain"
        /\ log # <<>> => IsDomain(log[1]) /\ log[1].name \o <<DOT>> = zone
        /\ \A i \in 2..Len(log) : ~IsDomain(log[i])
        /\ \A i \in 1..Len(log) :
            IsDomainCreate(log[i]) => i = 2 /\ log[1].raised = "NotFound"
        /\ log # <<>> /\ log[1].raised = "NotFound" =>
            IF Len(log) = 1 THEN pc = "domain_create"
            ELSE IsDomainCreate(log[2]) /\ log[2].name \o <<DOT>> = zone
        /\ Len(log) >= 2 /\ IsDomainCreate(log[2]) /\ log[2].raised = "none" =>
            /\ response # None
            /\ _domains # None
            /\ zone \in DOMAIN _domains[1]
            /\ _domains[1][zone] = response[1]
        /\ log # <<>> /\ log[1].raised \in Errors \ {"NotFound"} =>
            /\ Len(log) = 1
            /\ pc = "idle"
            /\ result = log[1].raised
            /\ exception.kind = log[1].raised

\* the domain was missing, was created with id 4, and apply went on to a
\* bulk request
C3_Witness ==
    /\ op = "apply"
    /\ Len(log) >= 3
    /\ log[1].raised = "NotFound"
    /\ IsDomainCreate(log[2])
    /\ response = Some(4)
    /\ _domains[1][zone] = 4


\* C4: the record listing of a zone is requested only while the zone has no
\* entry in the zone cache, and once per populate at most; a populate of a
\* zone that has an entry returns from the cache without any request, and
\* apply collects its delete ids without requesting a listing.
C4_FetchOnlyOnMiss ==
    [][/\ Sends /\ IsRecords(Sent) =>
            /\ zone \notin DOMAIN _zone_records
            /\ \A i \in 1..Len(log) : ~IsRecords(log[i])
       /\ pc = "idle" /\ op' = "populate" /\ zone' \in DOMAIN _zone_records =>
            /\ pc' = "idle"
            /\ result' = "returned"
            /\ log' = <<>>
            /\ _zone_records' = _zone_records
       /\ op' = "apply" => \A i \in 1..Len(log') : ~IsRecords(log'[i])]_vars

\* a populate answered from a listing that an earlier populate fetched
C4_Witness ==
    /\ op = "populate"
    /\ result = "returned"
    /\ log = <<>>
    /\ zone \in DOMAIN _zone_records
    /\ _zone_records[zone] # <<>>

\* C5: a zone's entry leaves the zone cache exactly when an apply for that
\* zone returns; no step replaces an entry by another listing, and an apply
\* that does not return, one that raises included, leaves the cache as it was.
C5_Invalidation ==
    [][/\ \A z \in DOMAIN _zone_records :
            /\ z \notin DOMAIN _zone_records' => ApplyReturns /\ zone = z
            /\ z \in DOMAIN _zone_records' => _zone_records'[z] = _zone_records[z]
       /\ ApplyReturns => zone \notin DOMAIN _zone_records'
       /\ op' = "apply" /\ ~ApplyReturns => _zone_records' = _zone_records]_vars

\* a create batch failed after a delete batch was sent: the listing is kept
C5_Witness ==
    /\ op = "apply"
    /\ result \in Errors
    /\ \E i \in 1..Len(log) : IsDelete(log[i]) /\ log[i].raised = "none"
    /\ IsCreate(log[Len(log)])
    /\ zone \in DOMAIN _zone_records
    /\ _zone_records[zone] # <<>>

\* C6: GET / is sent only while the domain-id cache is not populated, so it
\* succeeds once at most; a populated cache, an empty one included, stays
\* populated and changes only by the entry domain_create adds for the domain
\* it created.
C6_DomainsOnce ==
    [][_domains # None =>
        /\ ~(Sends /\ IsDomains(Sent))
        /\ _domains' # None
        /\ \/ _domains' = _domains
           \/ /\ Sends
              /\ IsDomainCreate(Sent)
              /\ Sent.raised = "none"
              /\ DOMAIN _domains'[1] = DOMAIN _domains[1] \cup {zone}
              /\ _domains'[1][zone] = response'[1]
              /\ \A n \in DOMAIN _domains[1] \ {zone} : _domains'[1][n] = _domains[1][n]]_vars

\* the listing was empty and was not fetched again when domain_create added
\* the only entry
C6_Witness ==
    /\ op = "apply"
    /\ response # None
    /\ _domains # None
    /\ DOMAIN _domains[1] = {zone}
    /\ \A i \in 1..Len(log) : ~IsDomains(log[i])

\* C7: for a zone name that is no key of the domain-id cache, records()
\* returns the empty list without an error and without a records request,
\* and populate adds no record to the zone.
C7_UnknownZone ==
    op = "populate" /\ _domains # None /\ zone \notin DOMAIN _domains[1] =>
        /\ pc = "idle"
        /\ result = "returned"
        /\ populated = {}
        /\ zone \in DOMAIN _zone_records
        /\ _zone_records[zone] = <<>>
        /\ \A i \in 1..Len(log) : ~IsRecords(log[i])

\* the first populate of a zone the fetched domain listing does not hold
C7_Witness ==
    /\ op = "populate"
    /\ result = "returned"
    /\ Len(log) = 1
    /\ IsDomains(log[1])
    /\ _domains # None
    /\ zone \notin DOMAIN _domains[1]

\* the mapping of statuses the claim C8 states
ClaimedKind(code) ==
    IF code = 400 THEN "BadRequest"
    ELSE IF code \in {401, 403} THEN "Unauthorized"
    ELSE IF code = 404 THEN "NotFound"
    ELSE IF code \notin 200..299 THEN "HTTPError"
    ELSE "none"

\* the mapping with the generic error kept to statuses of 400 and above
AmendedKind(code) ==
    IF code = 400 THEN "BadRequest"
    ELSE IF code \in {401, 403} THEN "Unauthorized"
    ELSE IF code = 404 THEN "NotFound"
    ELSE IF code >= 400 THEN "HTTPError"
    ELSE "none"

\* what the exception of the last request carries
Carries ==
    /\ exception.kind = log[Len(log)].raised
    /\ exception.kind = "BadRequest" =>
        \E e \in ErrorLists :
            exception.message = Flatten([i \in 1..Len(e) |-> <<"\n  - ">> \o e[i]])
    /\ exception.kind = "HTTPError" => exception.code = status

\* C8 as stated: 400 raises BadRequest with the joined messages, 401 and 403
\* Unauthorized, 404 NotFound, every other non-2xx status a generic HTTP
\* error with the status code, and only a 2xx status returns the response.
C8_StatusOutcome ==
    log # <<>> => log[Len(log)].raised = ClaimedKind(status) /\ Carries

\* C8 amended: as C8, but the generic HTTP error is raised for the other
\* statuses of 400 and above, and every status below 400 returns the response.
C8_StatusOutcomeAmended ==
    log # <<>> => log[Len(log)].raised = AmendedKind(status) /\ Carries

\* a 304 response was returned to the caller
C8_Witness ==
    /\ log # <<>>
    /\ status = 304
    /\ log[Len(log)].raised = "none"
    /\ result = "returned"

\* C9: after every request, whatever the status of its response, the client
\* sleeps ratelimit_delay before control is back at the caller.
C9_SleepsAfterEveryRequest ==
    \A i \in 1..Len(log) : log[i].slept

\* every ';' of the value follows a backslash
Escaped(v) == \A i \in 1..Len(v) : v[i] = SEMI => i > 1 /\ v[i - 1] = BACKSLASH

\* C10 as stated: a TXT value that holds a ';' is read back as it was written.
C10_RoundTrip ==
    stage = "read" /\ SEMI \in Range(abstract) => decoded = abstract

\* C10 amended: a TXT value without double quotes in which every ';' is
\* escaped by a backslash is read back as the value inside the pair of double
\* quotes the write path put around it.
C10_RoundTripQuoted ==
    stage = "read" /\ SEMI \in Range(abstract) /\ QUOTE \notin Range(abstract)
                   /\ Escaped(abstract) =>
        decoded = <<QUOTE>> \o abstract \o <<QUOTE>>

\* v\; was written as "v;" and read back as "v\;"
C10_Witness ==
    /\ stage = "read"
    /\ abstract = <<"v", BACKSLASH, SEMI>>
    /\ wire = <<QUOTE, "v", SEMI, QUOTE>>
    /\ decoded = <<QUOTE, "v", BACKSLASH, SEMI, QUOTE>>

\* s[1:-1]: s without its first and its last character
Inner(s) == [i \in 1..(Len(s) - 2) |-> s[i + 1]]

\* C11 as stated: the write path puts double quotes around the CAA value, the
\* read path strips them, and a write followed by a read gives back the
\* flags, the tag and the value.
C11_RoundTrip ==
    /\ stage \in {"written", "read"} =>
            wire.value = <<QUOTE>> \o abstract.value \o <<QUOTE>>
    /\ stage = "read" => decoded = abstract

\* C11 amended: the write path sends the flags, the tag and the value as they
\* are, without quotes; the read path drops the first and the last character
\* of the wire value; a write followed by a read gives back the flags and the
\* tag, and the value without its first and last character.
C11_RoundTripInner ==
    /\ stage \in {"written", "read"} =>
            /\ wire.value = abstract.value
            /\ wire.issuerCritical = abstract.flags
            /\ wire.caaType = abstract.tag
    /\ stage = "read" =>
            /\ decoded.flags = abstract.flags
            /\ decoded.tag = abstract.tag
            /\ decoded.value = Inner(abstract.value)

\* c.c was written as c.c and read back as .
C11_Witness ==
    /\ stage = "read"
    /\ abstract = [flags |-> 0, tag |-> "issue", value |-> <<"c", DOT, "c">>]
    /\ wire.value = <<"c", DOT, "c">>
    /\ decoded = [flags |-> 0, tag |-> "issue", value |-> <<DOT>>]

\* the record holds a double quote in a TXT value
HasQuote(r) ==
    r._type = "TXT" /\ \E i \in 1..Len(r.values) : \E k \in 1..Len(r.values[i]) :
                            r.values[i][k] = QUOTE

\* the record with every double quote taken out of its TXT values
Unquoted(r) ==
    IF r._type = "TXT"
    THEN [r EXCEPT !.values = [i \in 1..Len(@) |->
                                  SelectSeq(@[i], LAMBDA c : c # QUOTE)]]
    ELSE r

\* C12: for a desired zone that holds a TXT record with a double quote in a
\* value, a strict provider raises and leaves the zone as it was; a lenient
\* one returns the zone with each such record replaced by a copy without any
\* double quote in its values, every other record being the one handed in.
C12_QuotedTXT ==
    stage \in {"returned", "raised"} /\ (\E r \in given : HasQuote(r)) =>
        IF strict_supports
        THEN stage = "raised" /\ desired = given
        ELSE /\ stage = "returned"
             /\ desired = {Unquoted(r) : r \in given}
             /\ \A r \in given : ~HasQuote(r) => r \in desired

\* a lenient provider took the quotes out of v"u and kept the A record
C12_Witness ==
    /\ stage = "returned"
    /\ ~strict_supports
    /\ \E r \in given : r.name = <<"p">> /\ r.values = <<<<"v", QUOTE, "u">>>>
    /\ \E r \in desired : r.name = <<"p">> /\ r.values = <<<<"v", "u">>>>
    /\ \E r \in given \cap desired : r._type = "A"

\* an SRV record with a target that is the lone dot
NullSRV(r) ==
    r._type = "SRV" /\ \E i \in 1..Len(r.values) : r.values[i].target = <<DOT>>

\* C13: supports(record) is false for every SRV record with a target '.',
\* of one value or of several; with lenient support checking no change of a
\* plan is for such a record, and no parameter object of such a record is in
\* the creations or in a create request.
C13_NullSRV ==
    /\ \A r \in DesiredRecords : NullSRV(r) => ~supports(r)
    /\ op = "apply" /\ ~strict_supports =>
        /\ \A i \in 1..Len(plan) :
                plan[i].class \in {"Create", "Update"} => ~NullSRV(plan[i].new)
        /\ \A k \in 1..Len(creations) :
                ~(creations[k].type = "SRV" /\ creations[k].value = <<DOT>>)
        /\ \A i \in 1..Len(log) : \A k \in 1..Len(log[i].items) :
                IsCreate(log[i]) =>
                    ~(log[i].items[k].type = "SRV" /\ log[i].items[k].value = <<DOT>>)

\* the desired records hold an SRV record of one target '.' and one of two
\* targets with a '.', and an apply that created records for an empty zone
\* returned without a request for either
C13_Witness ==
    /\ \E r \in DesiredRecords : NullSRV(r) /\ Len(r.values) = 1
    /\ \E r \in DesiredRecords : NullSRV(r) /\ Len(r.values) > 1
    /\ op = "apply"
    /\ ~strict_supports
    /\ result = "returned"
    /\ populated = {}
    /\ Len(plan) = MaxChanges
    /\ \E i \in 1..Len(log) : IsCreate(log[i]) /\ log[i].raised = "none"

\* the number of values of a record
NumValues(r) == IF "value" \in DOMAIN r THEN 1 ELSE Len(r.values)

\* the type a record of type t has on the wire
WireType(t) == IF t = "ALIAS" THEN "ANAME" ELSE t

\* name and wire type of the expanded records of the Create and Update
\* changes, one per value, in the order of the changes
Expanded(changes) ==
    Flatten([i \in 1..Len(changes) |->
                IF changes[i].class = "Delete" THEN <<>>
                ELSE [k \in 1..NumValues(changes[i].new) |->
                        <<changes[i].new.name, WireType(changes[i].new._type)>>]])

\* the plan holds only Create changes and the domain check raised NotFound
CreateOnlyOnMissingDomain ==
    /\ op = "apply"
    /\ log # <<>>
    /\ log[1].raised = "NotFound"
    /\ \A i \in 1..Len(plan) : plan[i].class = "Create"
    /\ Len(Expanded(plan)) <= batch_size

\* C14: when the domain check finds no domain and the plan holds only Create
\* changes whose expanded records are at most batch_size, the requests of
\* apply are, in this order and with no other, the domain check, the domain
\* creation and one createMulti request addressed to the id the creation
\* returned and carrying all expanded records; an apply that returned has
\* sent all three, and no delete request is sent.
C14_CreateOnly ==
    CreateOnlyOnMissingDomain =>
        /\ Len(log) <= 3
        /\ IsDomain(log[1]) /\ log[1].name \o <<DOT>> = zone
        /\ Len(log) >= 2 => IsDomainCreate(log[2]) /\ log[2].name \o <<DOT>> = zone
        /\ Len(log) = 3 =>
            /\ IsCreate(log[3])
            /\ log[2].raised = "none"
            /\ response # None
            /\ log[3].zone_id = response[1]
            /\ log[3].zone_id \in NewIds
            /\ [k \in 1..Len(log[3].items) |->
                    <<log[3].items[k].name, log[3].items[k].type>>] = Expanded(plan)
        /\ \A i \in 1..Len(log) : ~IsDelete(log[i])
        /\ result = "returned" => Len(log) = 3 /\ log[3].raised = "none"

\* two expanded records were created in one request addressed to the new
\* domain 3
C14_Witness ==
    /\ CreateOnlyOnMissingDomain
    /\ result = "returned"
    /\ batch_size = 2
    /\ Len(log) = 3
    /\ Len(log[3].items) = 2
    /\ log[3].zone_id = 3
    /\ response = Some(3)

\* the step in which _apply turns the changes of the plan into the deletions
\* and the creations
Collects ==
    /\ op' = "apply"
    /\ deletions = <<>> /\ creations = <<>>
    /\ deletions' # <<>> \/ creations' # <<>>

\* ids is, without a repetition, the ids of the records of the listing that
\* have the name and the type of the record
IdsOf(ids, listing, record) ==
    /\ Range(ids) = {listing[i].id : i \in {j \in 1..Len(listing) :
                            /\ listing[j].name = record.name
                            /\ listing[j].type = record._type}}
    /\ \A i, j \in 1..Len(ids) : i # j => ids[i] # ids[j]

\* params is one parameter object per value of the record, with its name,
\* ttl and type, and for the types of plain values the value itself
ParamsOf(params, record) ==
    /\ Len(params) = NumValues(record)
    /\ \A k \in 1..Len(params) :
        /\ params[k].name = record.name
        /\ params[k].ttl = record.ttl
        /\ WireType(params[k].type) = WireType(record._type)
        /\ record._type = "A" => params[k].value = record.values[k]
        /\ record._type = "ALIAS" => params[k].value = record.value

\* C15: a Create gives no deletion and one parameter object per value of the
\* new record; a Delete gives no creation and the ids of exactly the records
\* of the cached listing with the name and the type of the existing record;
\* an Update gives the deletions of the Delete of its existing record and the
\* creations of the Create of its new record.
C15_Mod ==
    [][Collects /\ Len(plan') = 1 =>
        LET change == plan'[1]
            listing == _zone_records[zone']
        IN  /\ change.class = "Create" =>
                deletions' = <<>> /\ ParamsOf(creations', change.new)
            /\ change.class = "Delete" =>
                creations' = <<>> /\ IdsOf(deletions', listing, change.existing)
            /\ change.class = "Update" =>
                /\ IdsOf(deletions', listing, change.existing)
                /\ ParamsOf(creations', change.new)]_vars

\* the Update of the A record gave the ids 11 and 12 of the two A records
\* named w, not the id 14 of the record of another type with that name, and
\* two parameter objects
C15_Witness ==
    /\ op = "apply"
    /\ Len(plan) = 1
    /\ plan[1].class = "Update"
    /\ plan[1].existing._type = "A"
    /\ deletions = <<11, 12>>
    /\ Len(creations) = 2
    /\ zone \in DOMAIN _zone_records
    /\ \E i \in 1..Len(_zone_records[zone]) :
            _zone_records[zone][i].id = 14 /\ _zone_records[zone][i].name = <<"w">>

\* the ids a Delete or an Update collects, in the order of the listing
IdsInListing(change, listing) ==
    IF change.class = "Create" THEN <<>>
    ELSE LET hit == SelectSeq(listing, LAMBDA r : /\ r.name = change.existing.name
                                                  /\ r.type = change.existing._type)
         IN  [i \in 1..Len(hit) |-> hit[i].id]

\* the items of the requests of one kind, in the order they were sent
ItemsSent(kind) ==
    LET reqs == SelectSeq(log, LAMBDA e : <<e.method, e.path>> = kind)
    IN  Flatten([k \in 1..Len(reqs) |-> reqs[k].items])

\* name and type of parameter objects
NameAndType(params) == [k \in 1..Len(params) |-> <<params[k].name, params[k].type>>]

IsPrefix(s, t) == Len(s) <= Len(t) /\ s = SubSeq(t, 1, Len(s))

\* C16: the deletions and the creations of a zone are the per-change lists
\* put one after another in the order of the changes of the plan, and the ids
\* sent in delete requests and the records sent in create requests follow
\* that order: what was sent is the beginning of the list, and the whole list
\* once apply returned.  The zone's listing is in the cache until apply
\* returns.
C16_Accumulation ==
    op = "apply" /\ (deletions # <<>> \/ creations # <<>>) =>
        /\ zone \in DOMAIN _zone_records =>
                deletions = Flatten([i \in 1..Len(plan) |->
                                IdsInListing(plan[i], _zone_records[zone])])
        /\ [k \in 1..Len(creations) |->
                <<creations[k].name, WireType(creations[k].type)>>] = Expanded(plan)
        /\ IsPrefix(ItemsSent(<<"DELETE", "/{zone_id}/records">>), deletions)
        /\ IsPrefix(ItemsSent(<<"POST", "/{zone_id}/records/createMulti">>), creations)
        /\ result = "returned" =>
            /\ ItemsSent(<<"DELETE", "/{zone_id}/records">>) = deletions
            /\ ItemsSent(<<"POST", "/{zone_id}/records/createMulti">>) = creations

\* the ALIAS record was deleted before the A record was updated: the ids went
\* out as 13, 11, 12, not in the order of the listing, and the two A records
\* were created after
C16_Witness ==
    /\ op = "apply"
    /\ result = "returned"
    /\ Len(plan) = 2
    /\ plan[1].class = "Delete"
    /\ plan[2].class = "Update"
    /\ deletions = <<13, 11, 12>>
    /\ ItemsSent(<<"DELETE", "/{zone_id}/records">>) = <<13, 11, 12>>
    /\ NameAndType(ItemsSent(<<"POST", "/{zone_id}/records/createMulti">>))
        = <<<<<<"w">>, "A">>, <<<<"w">>, "A">>>>

\* the NotFound of the domain check of apply, which _apply catches
Recovered(i) ==
    op = "apply" /\ i = 1 /\ IsDomain(log[1]) /\ log[1].raised = "NotFound"

\* what identifies a request
Identity(e) == <<e.method, e.path, e.name, e.zone_id, e.items>>

\* C17: an error raised by a request ends the provider call with that error
\* and nothing is retried: but for the NotFound of the domain check that
\* apply recovers from, a request that failed is the last request of the
\* call, so a failed delete batch is followed by no delete or create batch
\* and a failed create batch by no create batch, and no request is sent twice.
C17_NoRetry ==
    /\ \A i \in 1..Len(log) :
        log[i].raised # "none" /\ ~Recovered(i) =>
            /\ i = Len(log)
            /\ pc = "idle"
            /\ result = log[i].raised
    /\ \A i, j \in 1..Len(log) : i # j => Identity(log[i]) # Identity(log[j])

\* the first of two delete batches failed: apply ended with the error, the
\* third id and the creations unsent
C17_Witness ==
    /\ op = "apply"
    /\ result \in Errors
    /\ pc = "idle"
    /\ Len(deletions) = 3
    /\ creations # <<>>
    /\ IsDelete(log[Len(log)])
    /\ log[Len(log)].raised = result
    /\ Len(SelectSeq(log, IsDelete)) = 1
    /\ Len(SelectSeq(log, IsCreate)) = 0

AliasLike == {"ALIAS", "CNAME", "MX", "NS", "SRV"}

\* the remote record the provider sent with this id
Remote(id) == CHOOSE r \in RemoteRecords : r.id = id

\* C18: in a listing records() returned, a record sent as ANAME has type
\* ALIAS and every other record the type it was sent with; the value of a
\* record of type ALIAS, CNAME, MX, NS or SRV is the zone name when the
\* value sent was empty, the value sent followed by '.' and the zone name
\* when it was not empty and had no final dot, and the value sent when it
\* ended in a dot, so it always ends in a dot; the value of a record of
\* any other type is the value sent.
C18_PostProcess ==
    \A z \in DOMAIN _zone_records : \A i \in 1..Len(_zone_records[z]) :
        LET r == _zone_records[z][i]
            raw == Remote(r.id)
            v == raw.value
        IN  /\ r.type = (IF raw.type = "ANAME" THEN "ALIAS" ELSE raw.type)
            /\ r.type \in AliasLike =>
                /\ v = <<>> => r.value = z
                /\ v # <<>> /\ v[Len(v)] # DOT => r.value = v \o <<DOT>> \o z
                /\ v # <<>> /\ v[Len(v)] = DOT => r.value = v
                /\ r.value # <<>> /\ r.value[Len(r.value)] = DOT
            /\ r.type \notin AliasLike => r.value = v

\* an ANAME record sent with the empty value is cached as an ALIAS record
\* whose value is the zone name
C18_Witness ==
    /\ op = "populate"
    /\ result = "returned"
    /\ zone \in DOMAIN _zone_records
    /\ Len(_zone_records[zone]) = 1
    /\ Remote(_zone_records[zone][1].id).type = "ANAME"
    /\ Remote(_zone_records[zone][1].id).value = <<>>
    /\ _zone_records[zone][1].type = "ALIAS"
    /\ _zone_records[zone][1].value = zone

\* C19: no record of a create request has type ALIAS: the records of an
\* ALIAS record go out as ANAME and those of any other type with their type;
\* every record of a create request carries gtdLocation = DEFAULT; and no
\* record of a listing records() returned has type ANAME.
C19_WireTypes ==
    /\ \A i \in 1..Len(log) : IsCreate(log[i]) =>
        \A k \in 1..Len(log[i].items) :
            /\ log[i].items[k].type # "ALIAS"
            /\ "gtdLocation" \in DOMAIN log[i].items[k]
            /\ log[i].items[k].gtdLocation = "DEFAULT"
    /\ op = "apply" =>
        IsPrefix(NameAndType(ItemsSent(<<"POST", "/{zone_id}/records/createMulti">>)),
                 Expanded(plan))
    /\ \A z \in DOMAIN _zone_records : \A i \in 1..Len(_zone_records[z]) :
            _zone_records[z][i].type # "ANAME"

\* the record 13, sent by the provider as ANAME, is cached as ALIAS, and its
\* update went out in a create request as ANAME with gtdLocation = DEFAULT
C19_Witness ==
    /\ op = "apply"
    /\ zone \in DOMAIN _zone_records
    /\ \E k \in 1..Len(_zone_records[zone]) :
            _zone_records[zone][k].id = 13 /\ _zone_records[zone][k].type = "ALIAS"
    /\ \E i \in 1..Len(plan) : plan[i].class = "Update" /\ plan[i].new._type = "ALIAS"
    /\ \E i \in 1..Len(log) :
            /\ IsCreate(log[i])
            /\ log[i].raised = "none"
            /\ \E k \in 1..Len(log[i].items) :
                    /\ log[i].items[k].type = "ANAME"
                    /\ log[i].items[k].gtdLocation = "DEFAULT"
            /\ \E k \in 1..Len(log[i].items) : log[i].items[k].type = "A"

\* C20: populate returns exists = true only for a zone whose name is a key
\* of the domain-id cache; for a zone the domain listing does not hold it
\* returns exists = false.
C20_ExistsOnlyIfKnown ==
    op = "populate" /\ result = "returned" =>
        (exists <=> _domains # None /\ zone \in DOMAIN _domains[1])

\* C21: every bulk-delete and bulk-create request of apply is addressed to
\* the id the domain-id cache maps the zone name to; none is sent with the
\* id unresolved, whatever the provider answered, a domain that exists at
\* the provider but was not in the domain listing included.
C21_ResolvedDomainId ==
    op = "apply" =>
        \A i \in 1..Len(log) :
            IsDelete(log[i]) \/ IsCreate(log[i]) =>
                /\ log[i].zone_id # False
                /\ _domains # None
                /\ zone \in DOMAIN _domains[1]
                /\ _domains[1][zone] = log[i].zone_id


====
